---- MODULE Spec2Model ----
(***************************************************************************)
(* Model of the bandita DVM (src/dvm/dvm.go, second revision of the file,  *)
(* lines 216-621): the responder Dvm (Run, runHeartbeat, Stop) and the     *)
(* requester DvmClient (RequestTweet), talking through one relay.          *)
(*                                                                         *)
(* The relay and the go-nostr connection handle are external: a handle is  *)
(* a number, alive or broken; a subscription lives on the handle it was    *)
(* opened on and only delivers events that match its filter (go-nostr      *)
(* checks the filter on the client side too).  Time is not measured: every *)
(* stored event is taken to lie inside the `since` window of a later       *)
(* subscription, which is the case when a run lasts less than the window.  *)
(***************************************************************************)
EXTENDS Integers, Sequences, FiniteSets, TLC

\* ------------------------------------------------------------- bounds
MaxStops  == 2      \* concurrent callers of Stop
MaxConns  == 4      \* connection handles ever created (2 exist at Init)
MaxBreaks == 1      \* connection failures injected by the environment
MaxStray  == 2      \* events a subscription hands over outside its filter
MaxNotes  == 1      \* kind-1 events that are no answer of the responder: its own
                    \* notes that answer nothing, another author's replies

\* ------------------------------------------------- program constants
maxRetries  == 3
KindRequest == 42069
KindNote    == 1

\* The requester whose RequestTweet call is followed step by step, and another
\* requester of the same responder, of which only the request event shows.
Clients == {"A"}
Other   == "B"
DvmPk   == "dvm"
Args      == {"1110302988", "404"}
OtherArgs == {"20"}

NoId     == "none"
NoHandle == 0
Handles  == 1..MaxConns

\* ------------------------------------------------------------ events
Tweet(u, t) == [Username |-> u, Text |-> t]
ZeroTweet   == Tweet("", "")

\* json.Marshal / json.Unmarshal of a twitterscraper.Tweet: the encoding is a
\* tagged triple, anything else does not decode.
Marshal(tw) == <<"json", tw.Username, tw.Text>>

Unmarshal(content) ==
    IF Len(content) = 3 /\ content[1] = "json"
    THEN [err |-> FALSE, tweet |-> Tweet(content[2], content[3])]
    ELSE [err |-> TRUE, tweet |-> ZeroTweet]

\* The fetch collaborator d.scraper.GetTweet: a fixed answer per argument.
GetTweet(arg) ==
    CASE arg = "1110302988" -> [err |-> FALSE, tweet |-> Tweet("halfin", "Running bitcoin")]
      [] arg = "20"         -> [err |-> FALSE, tweet |-> Tweet("bob", "gm")]
      [] arg = "30"         -> [err |-> FALSE, tweet |-> Tweet("pic", "")]
      [] OTHER              -> [err |-> TRUE,  tweet |-> ZeroTweet]

ReqId(c)  == IF c = "A" THEN "reqA" ELSE "reqB"
RespId(r) == IF r = "reqA" THEN "respA" ELSE "respB"

RequestIds == {ReqId(c) : c \in Clients \cup {Other}}

NoEvent == [id |-> NoId, kind |-> 0, pubkey |-> NoId, tags |-> <<>>, content |-> <<>>]

\* evt of RequestTweet
RequestEvent(c, tweetID) ==
    [id |-> ReqId(c), kind |-> KindRequest, pubkey |-> c, tags |-> <<>>,
     content |-> <<tweetID>>]

\* resp with the "p" tag naming the responder instead of the requester
ResponseEventOwnP(evt, tweetJSON) ==
    [id |-> RespId(evt.id), kind |-> KindNote, pubkey |-> DvmPk,
     tags |-> << <<"e", evt.id>>, <<"p", DvmPk>> >>,
     content |-> tweetJSON]

\* resp of Run
ResponseEvent(evt, tweetJSON) ==
    [id |-> RespId(evt.id), kind |-> KindNote, pubkey |-> DvmPk,
     tags |-> << <<"e", evt.id>>, <<"p", evt.pubkey>> >>,
     content |-> tweetJSON]

\* the tag loop of RequestTweet
HasETag(e, id) ==
    \E i \in 1..Len(e.tags) :
        Len(e.tags[i]) >= 2 /\ e.tags[i][1] = "e" /\ e.tags[i][2] = id

\* The response filter without Authors.
ClientFilterAnyAuthor(dvmPubKey) == [kinds |-> {KindNote}, authors |-> {}]

\* nostr.Filter: Kinds, Authors (empty = any author)
DvmFilter == [kinds |-> {KindRequest}, authors |-> {}]
ClientFilter(dvmPubKey) == [kinds |-> {KindNote}, authors |-> {dvmPubKey}]

Matches(f, e) ==
    /\ e.kind \in f.kinds
    /\ (f.authors = {} \/ e.pubkey \in f.authors)


\* ------------------------------------------------------------- state
VARIABLES
    relayEvents,    \* events the relay has stored
    alive,          \* connection handles whose ConnectionError is nil
    hcount,         \* handles created so far
    breaks,         \* connection failures so far
    notes,          \* unrelated notes published so far
    concurrent,     \* the two requests have been outstanding at the same time
    stray,          \* events handed to a wait that its filter does not pass
    \* Dvm
    dpc,            \* position of Run
    dRelay,         \* d.relay
    dSubH,          \* handle sub was opened on (NoHandle: no subscription)
    dSubOpen,       \* FALSE once sub.Unsub() ran
    dSeen,          \* ids of the events already taken from sub.Events
    dCur,           \* evt
    dLog,           \* the requests in the order the loop body began and ended on them
    dResp,          \* resp
    dAttempt,       \* attempt
    dTries,         \* Publish calls and failed RelayConnect calls of the retry loop so far
    dSawBroken,     \* handle the current attempt found broken
    dCtxCancelled,  \* cancel() was called
    dRet,           \* what Run returned: "none", "nil", "err"
    dFetchFailed,   \* ids of the requests whose fetch returned an error
    dPubOk,         \* ids of the requests whose response publish returned nil
    dPublished,     \* per request id, the publishes of its response that returned nil
    hbpc,           \* position of runHeartbeat
    \* Stop
    stopIdle,       \* callers of Stop that have not called yet
    stopIn,         \* callers inside the function sync.Once runs
    onceDone,       \* sync.Once: the function has run
    doneClosed,     \* d.done is closed
    closeCount,     \* executions of close(d.done)
    panicked,       \* close of a closed channel
    \* DvmClient.RequestTweet, one call per client
    rpc,            \* position of the call
    arg,            \* tweetID
    ctxDone,        \* ctx.Done() is closed (deadline or cancel)
    cRelay,         \* c.relay
    cSubH,          \* handle sub was opened on
    cSubOpen,       \* FALSE once the deferred sub.Unsub() ran
    rSeen,          \* ids of the events already taken from sub.Events
    rAttempt,       \* attempt
    rTries,         \* Publish calls and failed RelayConnect calls of the retry loop so far
    rSawBroken,     \* handle the current attempt found broken
    publishErr,     \* publishErr: "nil", "transport" or "ctx"
    rPubTried,      \* c.relay.Publish was called
    rPubOk,         \* c.relay.Publish returned nil
    rOlder,         \* ids of the responder's events at the relay when it stored the request
    outcome,        \* "none", "result", "signerr", "suberr", "puberr", "ctxerr"
    retErr,         \* the error returned: "none" (no return yet), "nil", "sign",
                    \* "transport" (the connector's own), "ctx" (a done context's)
    result,         \* the tweet returned
    resultEvt       \* the event the tweet was decoded from

envVars  == <<relayEvents, alive, hcount, breaks, notes, concurrent, stray>>
dvmVars  == <<dpc, dRelay, dSubH, dSubOpen, dSeen, dCur, dLog, dResp, dAttempt, dTries, dSawBroken,
              dCtxCancelled, dRet, dFetchFailed, dPubOk, dPublished>>
stopVars == <<stopIdle, stopIn, onceDone, doneClosed, closeCount, panicked>>
cliVars  == <<rpc, arg, ctxDone, cRelay, cSubH, cSubOpen, rSeen, rAttempt, rTries, rSawBroken,
              publishErr, rPubTried, rPubOk, rOlder, outcome, retErr, result, resultEvt>>
vars     == <<envVars, dvmVars, hbpc, stopVars, cliVars>>

\* NewDvm and NewDvmClient each connected once: handle 1 is the responder's,
\* handle 2 the client's.
InitHandle(c) == 2

Init ==
    /\ relayEvents = {}
    /\ alive = {1, 2}
    /\ hcount = 2
    /\ breaks = 0
    /\ notes = 0
    /\ concurrent = FALSE
    /\ stray = 0
    /\ dpc = "init"
    /\ dRelay = 1
    /\ dSubH = NoHandle
    /\ dSubOpen = FALSE
    /\ dSeen = {}
    /\ dCur = NoEvent
    /\ dLog = <<>>
    /\ dResp = NoEvent
    /\ dAttempt = 0
    /\ dTries = 0
    /\ dSawBroken = NoHandle
    /\ dCtxCancelled = FALSE
    /\ dRet = "none"
    /\ dFetchFailed = {}
    /\ dPubOk = {}
    /\ dPublished = [r \in RequestIds |-> 0]
    /\ hbpc = "off"
    /\ stopIdle = MaxStops
    /\ stopIn = 0
    /\ onceDone = FALSE
    /\ doneClosed = FALSE
    /\ closeCount = 0
    /\ panicked = FALSE
    /\ rpc = [c \in Clients |-> "idle"]
    /\ arg \in [Clients -> Args]
    /\ ctxDone = [c \in Clients |-> FALSE]
    /\ cRelay = [c \in Clients |-> InitHandle(c)]
    /\ cSubH = [c \in Clients |-> NoHandle]
    /\ cSubOpen = [c \in Clients |-> FALSE]
    /\ rSeen = [c \in Clients |-> {}]
    /\ rAttempt = [c \in Clients |-> 0]
    /\ rTries = [c \in Clients |-> 0]
    /\ rSawBroken = [c \in Clients |-> NoHandle]
    /\ publishErr = [c \in Clients |-> "nil"]
    /\ rPubTried = [c \in Clients |-> FALSE]
    /\ rPubOk = [c \in Clients |-> FALSE]
    /\ rOlder = [c \in Clients |-> {}]
    /\ outcome = [c \in Clients |-> "none"]
    /\ retErr = [c \in Clients |-> "none"]
    /\ result = [c \in Clients |-> ZeroTweet]
    /\ resultEvt = [c \in Clients |-> NoEvent]

\* ------------------------------------------------------- environment
\* A connection fails: the handle's ConnectionError becomes non-nil.
Break(h) ==
    /\ h \in alive
    /\ breaks < MaxBreaks
    /\ alive' = alive \ {h}
    /\ breaks' = breaks + 1
    /\ UNCHANGED <<relayEvents, hcount, notes, concurrent, stray, dvmVars, hbpc, stopVars, cliVars>>

\* The responder identity publishes a kind-1 note that answers no request
\* (its key may be one supplied from outside and used elsewhere): a well
\* formed tweet without tags, a tweet with an empty text, or plain text.
NoteContents == {Marshal(Tweet("halfin", "old note")), Marshal(Tweet("halfin", "")),
                 <<"gm">>}

NoteId(n) == IF n = 0 THEN "note1" ELSE IF n = 1 THEN "note2" ELSE "note3"

OtherNote(content) ==
    /\ notes < MaxNotes
    /\ notes' = notes + 1
    /\ relayEvents' = relayEvents \cup
          {[id |-> NoteId(notes), kind |-> KindNote, pubkey |-> DvmPk, tags |-> <<>>,
            content |-> content]}
    /\ UNCHANGED <<alive, hcount, breaks, concurrent, stray, dvmVars, hbpc, stopVars, cliVars>>

\* Somebody else answers the request of c: a kind-1 event of another author
\* with an "e" tag equal to the request id and a tweet as payload.
Stranger == "mallory"

ForeignReply(c) ==
    /\ notes < MaxNotes
    /\ RequestEvent(c, arg[c]) \in relayEvents
    /\ notes' = notes + 1
    /\ relayEvents' = relayEvents \cup
          {[id |-> "foreign", kind |-> KindNote, pubkey |-> Stranger,
            tags |-> << <<"e", ReqId(c)>> >>,
            content |-> Marshal(Tweet(Stranger, "fake"))]}
    /\ UNCHANGED <<alive, hcount, breaks, concurrent, stray, dvmVars, hbpc, stopVars, cliVars>>

\* The responder identity publishes an event of another kind (6, a repost)
\* that has all of a response but the kind: the "e" tag of c's request and a
\* tweet as payload.
KindRepost == 6

Repost(c) ==
    [id |-> "repost", kind |-> KindRepost, pubkey |-> DvmPk,
     tags |-> << <<"e", ReqId(c)>> >>,
     content |-> Marshal(Tweet("halfin", "Running bitcoin"))]

DvmRepost(c) ==
    /\ notes < MaxNotes
    /\ RequestEvent(c, arg[c]) \in relayEvents
    /\ notes' = notes + 1
    /\ relayEvents' = relayEvents \cup {Repost(c)}
    /\ UNCHANGED <<alive, hcount, breaks, concurrent, stray, dvmVars, hbpc, stopVars, cliVars>>

\* The events of author pk at the relay.
Published(pk) == {e \in relayEvents : e.pubkey = pk}

\* The other requester's request is published and not answered yet.
OtherOutstanding ==
    /\ \E e \in relayEvents : e.id = ReqId(Other)
    /\ \A e \in relayEvents : e.id # RespId(ReqId(Other))

\* Another requester publishes its request to the same responder.
OtherRequest(tweetID) ==
    /\ \A a \in OtherArgs : RequestEvent(Other, a) \notin relayEvents
    /\ relayEvents' = relayEvents \cup {RequestEvent(Other, tweetID)}
    /\ concurrent' = (concurrent \/ \E c \in Clients : rpc[c] = "wait")
    /\ UNCHANGED stray
    /\ UNCHANGED <<alive, hcount, breaks, notes, dvmVars, hbpc, stopVars, cliVars>>

\* The caller's deadline elapses or the caller cancels.
Deadline(c) ==
    /\ rpc[c] # "returned"
    /\ ~ctxDone[c]
    /\ ctxDone' = [ctxDone EXCEPT ![c] = TRUE]
    /\ UNCHANGED <<envVars, dvmVars, hbpc, stopVars, rpc, arg, cRelay, cSubH, cSubOpen,
                   rSeen, rAttempt, rTries, rSawBroken, publishErr, rPubTried, rPubOk, rOlder,
                   outcome, retErr, result, resultEvt>>

\* Events a subscription on handle h with filter f can still hand over.
Deliverable(h, open, f, seen) ==
    IF open /\ h \in alive
    THEN {e \in relayEvents : Matches(f, e) /\ e.id \notin seen}
    ELSE {}


\* The error of a connector call made with ctx (Subscribe, Publish) that did
\* not succeed: the connector's own, or, with ctx done, the one of giving up
\* on the context.
CallErrors(done) == {"transport"} \cup (IF done THEN {"ctx"} ELSE {})

\* The error of a RelayConnect that returned no handle: a done context fails
\* the dial before anything else.
ConnectError(done) == IF done THEN "ctx" ELSE "transport"

\* nostr.RelayConnect: the handles a connect attempt can return.  NoHandle is
\* the failed attempt; a cancelled context only fails.
ConnectResults(cancelled) ==
    {NoHandle} \cup (IF ~cancelled /\ hcount < MaxConns THEN {hcount + 1} ELSE {})

Connected(h) ==
    /\ hcount' = hcount + 1
    /\ alive' = alive \cup {h}

\* --------------------------------------------------------------- Stop
\* Stop without the Once: every caller closes the channel.
StopCallNoOnce ==
    /\ stopIdle > 0
    /\ stopIdle' = stopIdle - 1
    /\ stopIn' = stopIn + 1
    /\ UNCHANGED <<envVars, dvmVars, hbpc, onceDone, doneClosed, closeCount, panicked,
                   cliVars>>

\* d.Do(func() { close(d.done) }): sync.Once lets one caller in; callers that
\* arrive while it runs block until it is through, and then return.
StopCall ==
    /\ stopIdle > 0
    /\ stopIdle' = stopIdle - 1
    /\ IF onceDone
       THEN UNCHANGED stopIn
       ELSE stopIn = 0 /\ stopIn' = 1
    /\ UNCHANGED <<envVars, dvmVars, hbpc, onceDone, doneClosed, closeCount, panicked,
                   cliVars>>

\* close(d.done), after which the Once is done
StopClose ==
    /\ stopIn > 0
    /\ stopIn' = stopIn - 1
    /\ closeCount' = closeCount + 1
    /\ IF doneClosed
       THEN panicked' = TRUE /\ UNCHANGED doneClosed
       ELSE doneClosed' = TRUE /\ UNCHANGED panicked
    /\ onceDone' = TRUE
    /\ UNCHANGED <<envVars, dvmVars, hbpc, stopIdle, cliVars>>

\* ---------------------------------------------------------------- Run
\* Run up to the Subscribe call: the context is made and the heartbeat started.
RunStart ==
    /\ dpc = "init"
    /\ dpc' = "subscribing"
    /\ hbpc' = "ticking"
    /\ UNCHANGED <<envVars, dRelay, dSubH, dSubOpen, dSeen, dCur, dLog, dResp, dAttempt, dTries,
                   dSawBroken, dCtxCancelled, dRet, dFetchFailed, dPubOk, dPublished, stopVars, cliVars>>

\* A Subscribe error is followed by a reconnect and a second Subscribe on
\* the new connection; Run returns the error only if that fails too.
RunSubscribeRetry ==
    /\ dpc = "subscribing"
    /\ \/ /\ dRelay \in alive
          /\ dSubH' = dRelay
          /\ dSubOpen' = TRUE
          /\ dpc' = "select"
          /\ UNCHANGED <<dRet, dRelay, hcount, alive>>
       \/ \E h \in ConnectResults(FALSE) :
             IF h = NoHandle
             THEN /\ dpc' = "returned"
                  /\ dRet' = "err"
                  /\ UNCHANGED <<dSubH, dSubOpen, dRelay, hcount, alive>>
             ELSE /\ Connected(h)
                  /\ dRelay' = h
                  /\ dSubH' = h
                  /\ dSubOpen' = TRUE
                  /\ dpc' = "select"
                  /\ UNCHANGED dRet
    /\ UNCHANGED <<relayEvents, breaks, notes, concurrent, stray, dSeen, dCur, dLog, dResp,
                   dAttempt, dTries, dSawBroken, dCtxCancelled, dFetchFailed, dPubOk,
                   dPublished, hbpc, stopVars, cliVars>>

\* d.relay.Subscribe: an error returns it at once (the deferred cancel and
\* Unsub are not registered yet).
RunSubscribe ==
    /\ dpc = "subscribing"
    /\ \/ /\ dRelay \in alive
          /\ dSubH' = dRelay
          /\ dSubOpen' = TRUE
          /\ dpc' = "select"
          /\ UNCHANGED dRet
       \/ /\ dpc' = "returned"
          /\ dRet' = "err"
          /\ UNCHANGED <<dSubH, dSubOpen>>
    /\ UNCHANGED <<envVars, dRelay, dSeen, dCur, dLog, dResp, dAttempt, dTries, dSawBroken,
                   dCtxCancelled, dFetchFailed, dPubOk, dPublished, hbpc, stopVars, cliVars>>

\* A handler per event: the next event is taken while the body still works on
\* the one before.
RunRecvWhileBusy(e) ==
    /\ dpc \in {"select", "fetch", "attempt", "publish"}
    /\ e \in Deliverable(dSubH, dSubOpen, DvmFilter, dSeen)
    /\ dSeen' = dSeen \cup {e.id}
    /\ dCur' = e
    /\ dpc' = "fetch"
    /\ dLog' = Append(dLog, <<"recv", e.id>>)
    /\ UNCHANGED <<envVars, dRelay, dSubH, dSubOpen, dResp, dAttempt, dTries, dSawBroken,
                   dCtxCancelled, dRet, dFetchFailed, dPubOk, dPublished, hbpc, stopVars, cliVars>>

\* case evt := <-sub.Events
RunRecv(e) ==
    /\ dpc = "select"
    /\ e \in Deliverable(dSubH, dSubOpen, DvmFilter, dSeen)
    /\ dSeen' = dSeen \cup {e.id}
    /\ IF e.kind = KindRequest
       THEN dCur' = e /\ dpc' = "fetch" /\ dLog' = Append(dLog, <<"recv", e.id>>)
       ELSE UNCHANGED <<dCur, dLog, dpc>>
    /\ UNCHANGED <<envVars, dRelay, dSubH, dSubOpen, dResp, dAttempt, dTries, dSawBroken,
                   dCtxCancelled, dRet, dFetchFailed, dPubOk, dPublished, hbpc, stopVars, cliVars>>

\* The loop body is left (continue, break, or the retries are used up): its
\* locals evt, resp and attempt go out of scope.
RunBodyEnds ==
    /\ dpc' = "select"
    /\ dCur' = NoEvent
    /\ dLog' = Append(dLog, <<"end", dCur.id>>)
    /\ dResp' = NoEvent
    /\ dAttempt' = 0
    /\ dTries' = 0
    /\ dSawBroken' = NoHandle

\* The fetch error is logged but the request is answered all the same.
RunFetchIgnoreErr ==
    /\ dpc = "fetch"
    /\ LET r == GetTweet(dCur.content[1]) IN
       /\ dFetchFailed' = IF r.err THEN dFetchFailed \cup {dCur.id} ELSE dFetchFailed
       /\ dResp' = ResponseEvent(dCur, Marshal(r.tweet))
       /\ dAttempt' = 0
       /\ dTries' = 0
       /\ dSawBroken' = NoHandle
       /\ dpc' = "attempt"
       /\ UNCHANGED <<dCur, dLog>>
    /\ UNCHANGED <<envVars, dRelay, dSubH, dSubOpen, dSeen, dCtxCancelled, dRet,
                   dPubOk, dPublished, hbpc, stopVars, cliVars>>

\* A failed fetch ends Run: it returns the error, the deferred calls run.
RunFetchFatal ==
    /\ dpc = "fetch"
    /\ LET r == GetTweet(dCur.content[1]) IN
       IF r.err
       THEN /\ dFetchFailed' = dFetchFailed \cup {dCur.id}
            /\ dpc' = "returned"
            /\ dRet' = "err"
            /\ dCtxCancelled' = TRUE
            /\ dSubOpen' = FALSE
            /\ dCur' = NoEvent
            /\ dLog' = Append(dLog, <<"end", dCur.id>>)
            /\ UNCHANGED <<dResp, dAttempt, dTries, dSawBroken>>
       ELSE /\ dResp' = ResponseEvent(dCur, Marshal(r.tweet))
            /\ dAttempt' = 0
            /\ dTries' = 0
            /\ dSawBroken' = NoHandle
            /\ dpc' = "attempt"
            /\ UNCHANGED <<dCur, dLog, dFetchFailed, dRet, dCtxCancelled, dSubOpen>>
    /\ UNCHANGED <<envVars, dRelay, dSubH, dSeen, dPubOk, dPublished, hbpc, stopVars,
                   cliVars>>

\* GetTweet, json.Marshal, the response event and resp.Sign; each failure
\* drops the request (continue).
RunFetch ==
    /\ dpc = "fetch"
    /\ LET r == GetTweet(dCur.content[1]) IN
       IF r.err
       THEN /\ dFetchFailed' = dFetchFailed \cup {dCur.id}
            /\ RunBodyEnds
       ELSE /\ UNCHANGED dFetchFailed
            /\ \/ /\ dResp' = ResponseEvent(dCur, Marshal(r.tweet))
                  /\ dAttempt' = 0
                  /\ dTries' = 0
                  /\ dSawBroken' = NoHandle
                  /\ dpc' = "attempt"
                  /\ UNCHANGED <<dCur, dLog>>
               \/ RunBodyEnds            \* Marshal or Sign returned an error
    /\ UNCHANGED <<envVars, dRelay, dSubH, dSubOpen, dSeen, dCtxCancelled, dRet,
                   dPubOk, dPublished, hbpc, stopVars, cliVars>>

\* Top of the retry loop: the ConnectionError check and the reconnect.
RunAttempt ==
    /\ dpc = "attempt"
    /\ IF dRelay \notin alive
       THEN \E h \in ConnectResults(FALSE) :
              IF h = NoHandle
              THEN /\ IF dAttempt + 1 < maxRetries
                      THEN /\ dAttempt' = dAttempt + 1
                           /\ dTries' = dTries + 1
                           /\ dSawBroken' = NoHandle
                           /\ UNCHANGED <<dpc, dCur, dLog, dResp>>
                      ELSE RunBodyEnds
                   /\ UNCHANGED <<dRelay, hcount, alive>>
              ELSE /\ Connected(h)
                   /\ dRelay' = h
                   /\ dSawBroken' = dRelay
                   /\ dpc' = "publish"
                   /\ UNCHANGED <<dAttempt, dTries, dCur, dLog, dResp>>
       ELSE /\ dpc' = "publish"
            /\ dSawBroken' = NoHandle
            /\ UNCHANGED <<dRelay, dAttempt, dTries, dCur, dLog, dResp, hcount, alive>>
    /\ UNCHANGED <<relayEvents, breaks, notes, concurrent, stray, dSubH, dSubOpen, dSeen,
                   dCtxCancelled, dRet, dFetchFailed, dPubOk, dPublished, hbpc, stopVars, cliVars>>

\* The retry loop without attempt++: a failed publish is tried again for ever.
RunPublishNoAdvance ==
    /\ dpc = "publish"
    /\ dTries <= maxRetries
    /\ \/ /\ dRelay \in alive
          /\ relayEvents' = relayEvents \cup {dResp}
          /\ dPubOk' = dPubOk \cup {dCur.id}
          /\ dPublished' = [dPublished EXCEPT ![dCur.id] = @ + 1]
          /\ RunBodyEnds
       \/ /\ dTries' = dTries + 1
          /\ dpc' = "attempt"
          /\ UNCHANGED <<dAttempt, dCur, dLog, dResp, dSawBroken>>
          /\ UNCHANGED <<relayEvents, dPubOk, dPublished>>
    /\ UNCHANGED <<alive, hcount, breaks, notes, concurrent, stray, dRelay, dSubH, dSubOpen, dSeen,
                   dCtxCancelled, dRet, dFetchFailed, hbpc, stopVars, cliVars>>

\* The retry loop without the break: a publish that returned nil is followed
\* by the next attempt.
RunPublishNoBreak ==
    /\ dpc = "publish"
    /\ \/ /\ dRelay \in alive
          /\ relayEvents' = relayEvents \cup {dResp}
          /\ dPubOk' = dPubOk \cup {dCur.id}
          /\ dPublished' = [dPublished EXCEPT ![dCur.id] = @ + 1]
       \/ UNCHANGED <<relayEvents, dPubOk, dPublished>>
    /\ IF dAttempt + 1 < maxRetries
       THEN /\ dAttempt' = dAttempt + 1
            /\ dTries' = dTries + 1
            /\ dpc' = "attempt"
            /\ UNCHANGED <<dCur, dLog, dResp, dSawBroken>>
       ELSE RunBodyEnds
    /\ UNCHANGED <<alive, hcount, breaks, notes, concurrent, stray, dRelay, dSubH, dSubOpen, dSeen,
                   dCtxCancelled, dRet, dFetchFailed, hbpc, stopVars, cliVars>>

\* The retry loop with a return: once the retries are used up Run returns the
\* error, the deferred calls run.
RunPublishFatal ==
    /\ dpc = "publish"
    /\ \/ /\ dRelay \in alive
          /\ relayEvents' = relayEvents \cup {dResp}
          /\ dPubOk' = dPubOk \cup {dCur.id}
          /\ dPublished' = [dPublished EXCEPT ![dCur.id] = @ + 1]
          /\ RunBodyEnds
          /\ UNCHANGED <<dRet, dCtxCancelled, dSubOpen>>
       \/ /\ IF dAttempt + 1 < maxRetries
             THEN /\ dAttempt' = dAttempt + 1
                  /\ dTries' = dTries + 1
                  /\ dpc' = "attempt"
                  /\ UNCHANGED <<dCur, dLog, dResp, dSawBroken, dRet, dCtxCancelled, dSubOpen>>
             ELSE /\ dpc' = "returned"
                  /\ dRet' = "err"
                  /\ dCtxCancelled' = TRUE
                  /\ dSubOpen' = FALSE
                  /\ dCur' = NoEvent
                  /\ dLog' = Append(dLog, <<"end", dCur.id>>)
                  /\ dResp' = NoEvent
                  /\ dAttempt' = 0
                  /\ dTries' = 0
                  /\ dSawBroken' = NoHandle
          /\ UNCHANGED <<relayEvents, dPubOk, dPublished>>
    /\ UNCHANGED <<alive, hcount, breaks, notes, concurrent, stray, dRelay, dSubH, dSeen,
                   dFetchFailed, hbpc, stopVars, cliVars>>

\* d.relay.Publish(context.Background(), resp)
RunPublish ==
    /\ dpc = "publish"
    /\ \/ /\ dRelay \in alive
          /\ relayEvents' = relayEvents \cup {dResp}
          /\ dPubOk' = dPubOk \cup {dCur.id}
          /\ dPublished' = [dPublished EXCEPT ![dCur.id] = @ + 1]
          /\ RunBodyEnds
       \/ /\ IF dAttempt + 1 < maxRetries
             THEN /\ dAttempt' = dAttempt + 1
                  /\ dTries' = dTries + 1
                  /\ dpc' = "attempt"
                  /\ UNCHANGED <<dCur, dLog, dResp, dSawBroken>>
             ELSE RunBodyEnds
          /\ UNCHANGED <<relayEvents, dPubOk, dPublished>>
    /\ UNCHANGED <<alive, hcount, breaks, notes, concurrent, stray, dRelay, dSubH, dSubOpen, dSeen,
                   dCtxCancelled, dRet, dFetchFailed, hbpc, stopVars, cliVars>>

\* Run returning on the shutdown signal without the deferred cancel and Unsub.
RunDoneNoDefer ==
    /\ dpc = "select"
    /\ doneClosed
    /\ dpc' = "returned"
    /\ dRet' = "nil"
    /\ UNCHANGED <<envVars, dRelay, dSubH, dSubOpen, dSeen, dCur, dLog, dResp, dAttempt, dTries,
                   dSawBroken, dCtxCancelled, dFetchFailed, dPubOk, dPublished, hbpc, stopVars,
                   cliVars>>

\* case <-d.done: return nil, then the deferred cancel() and sub.Unsub()
RunDone ==
    /\ dpc = "select"
    /\ doneClosed
    /\ dpc' = "returned"
    /\ dRet' = "nil"
    /\ dCtxCancelled' = TRUE
    /\ dSubOpen' = FALSE
    /\ UNCHANGED <<envVars, dRelay, dSubH, dSeen, dCur, dLog, dResp, dAttempt, dTries, dSawBroken,
                   dFetchFailed, dPubOk, dPublished, hbpc, stopVars, cliVars>>

\* ------------------------------------------------------- runHeartbeat
\* case <-ticker.C: the connection check
HeartbeatTick ==
    /\ hbpc = "ticking"
    /\ hbpc' = IF dRelay \notin alive THEN "reconnect" ELSE "ticking"
    /\ UNCHANGED <<envVars, dvmVars, stopVars, cliVars>>

\* nostr.RelayConnect(ctx, d.relay.URL) and d.relay = newRelay
HeartbeatReconnect ==
    /\ hbpc = "reconnect"
    /\ hbpc' = "ticking"
    /\ \E h \in ConnectResults(dCtxCancelled) :
          IF h = NoHandle
          THEN UNCHANGED <<dRelay, hcount, alive>>
          ELSE Connected(h) /\ dRelay' = h
    /\ UNCHANGED <<relayEvents, breaks, notes, concurrent, stray, dpc, dSubH, dSubOpen, dSeen, dCur, dLog, dResp,
                   dAttempt, dTries, dSawBroken, dCtxCancelled, dRet, dFetchFailed, dPubOk, dPublished,
                   stopVars, cliVars>>

\* case <-ctx.Done() and case <-d.done
HeartbeatStop ==
    /\ hbpc = "ticking"
    /\ dCtxCancelled \/ doneClosed
    /\ hbpc' = "stopped"
    /\ UNCHANGED <<envVars, dvmVars, stopVars, cliVars>>


\* ------------------------------------------------------- RequestTweet
\* The correlation test without the fallback: the tag loop alone.
IsOurResponseTagOnly(e, evtID, dvmPubKey) ==
    /\ e.kind = KindNote
    /\ HasETag(e, evtID)

\* The correlation test without `if e.Kind == 1`.
IsOurResponseAnyKind(e, evtID, dvmPubKey) ==
    HasETag(e, evtID) \/ e.pubkey = dvmPubKey

\* The correlation test of the wait loop: the tag loop, then the fallback.
IsOurResponse(e, evtID, dvmPubKey) ==
    /\ e.kind = KindNote
    /\ (HasETag(e, evtID) \/ e.pubkey = dvmPubKey)

\* The wait ended by any event of ours that decodes, whatever its text.
AcceptsEmptyText(e, evtID, dvmPubKey) ==
    /\ IsOurResponse(e, evtID, dvmPubKey)
    /\ ~Unmarshal(e.content).err

\* The event ends the wait: it is ours, it decodes and its text is not empty.
Accepts(e, evtID, dvmPubKey) ==
    /\ IsOurResponse(e, evtID, dvmPubKey)
    /\ ~Unmarshal(e.content).err
    /\ Unmarshal(e.content).tweet.Text # ""

\* A return of RequestTweet; the deferred sub.Unsub() runs if it was registered.
Return(c, out, err) ==
    /\ rpc' = [rpc EXCEPT ![c] = "returned"]
    /\ outcome' = [outcome EXCEPT ![c] = out]
    /\ retErr' = [retErr EXCEPT ![c] = err]
    /\ cSubOpen' = [cSubOpen EXCEPT ![c] = FALSE]

\* The retry loop is left: attempt goes out of scope.
LoopEnds(c) ==
    /\ rAttempt' = [rAttempt EXCEPT ![c] = 0]
    /\ rTries' = [rTries EXCEPT ![c] = 0]
    /\ rSawBroken' = [rSawBroken EXCEPT ![c] = NoHandle]

\* The request is published before any subscription is opened.
ReqStartNoSubscribe(c) ==
    /\ rpc[c] = "idle"
    /\ rpc' = [rpc EXCEPT ![c] = "attempt"]
    /\ UNCHANGED <<envVars, dvmVars, hbpc, stopVars, arg, ctxDone, cRelay, cSubH, cSubOpen,
                   rSeen, rAttempt, rTries, rSawBroken, publishErr, rPubTried, rPubOk, rOlder, outcome,
                   retErr, result, resultEvt>>

\* The request event is built and signed, then c.relay.Subscribe(ctx, filter):
\* an error of either returns at once.
ReqStart(c) ==
    /\ rpc[c] = "idle"
    /\ \/ /\ cRelay[c] \in alive
          /\ ~ctxDone[c]
          /\ cSubH' = [cSubH EXCEPT ![c] = cRelay[c]]
          /\ cSubOpen' = [cSubOpen EXCEPT ![c] = TRUE]
          /\ rpc' = [rpc EXCEPT ![c] = "attempt"]
          /\ UNCHANGED <<outcome, retErr>>
       \/ /\ Return(c, "signerr", "sign")
          /\ UNCHANGED cSubH
       \/ /\ \E err \in CallErrors(ctxDone[c]) : Return(c, "suberr", err)
          /\ UNCHANGED cSubH
    /\ UNCHANGED <<envVars, dvmVars, hbpc, stopVars, arg, ctxDone, cRelay, rSeen,
                   rAttempt, rTries, rSawBroken, publishErr, rPubTried, rPubOk, rOlder, result,
                   resultEvt>>

\* The return of publishErr without the deferred Unsub.
AfterLoopNoUnsub(c, perr) ==
    /\ LoopEnds(c)
    /\ publishErr' = [publishErr EXCEPT ![c] = "nil"]
    /\ IF perr # "nil"
       THEN /\ rpc' = [rpc EXCEPT ![c] = "returned"]
            /\ outcome' = [outcome EXCEPT ![c] = "puberr"]
            /\ retErr' = [retErr EXCEPT ![c] = perr]
            /\ UNCHANGED cSubOpen
       ELSE /\ rpc' = [rpc EXCEPT ![c] = "wait"]
            /\ UNCHANGED <<outcome, retErr, cSubOpen>>

\* After the retry loop: if publishErr != nil { return nil, publishErr },
\* else the wait begins.
AfterLoop(c, perr) ==
    /\ LoopEnds(c)
    /\ publishErr' = [publishErr EXCEPT ![c] = "nil"]
    /\ IF perr # "nil"
       THEN Return(c, "puberr", perr)
       ELSE /\ rpc' = [rpc EXCEPT ![c] = "wait"]
            /\ UNCHANGED <<outcome, retErr, cSubOpen>>

\* An attempt failed (sleep, then the next attempt if one is left); perr is
\* publishErr after the attempt.
AttemptFailed(c, perr) ==
    IF rAttempt[c] + 1 < maxRetries
    THEN /\ rAttempt' = [rAttempt EXCEPT ![c] = @ + 1]
         /\ rTries' = [rTries EXCEPT ![c] = @ + 1]
         /\ rSawBroken' = [rSawBroken EXCEPT ![c] = NoHandle]
         /\ publishErr' = [publishErr EXCEPT ![c] = perr]
         /\ rpc' = [rpc EXCEPT ![c] = "attempt"]
         /\ UNCHANGED <<outcome, retErr, cSubOpen>>
    ELSE AfterLoop(c, perr)

\* The reconnect succeeds but c.relay keeps the broken handle.
ReqAttemptKeepHandle(c) ==
    /\ rpc[c] = "attempt"
    /\ IF cRelay[c] \notin alive
       THEN \E h \in ConnectResults(ctxDone[c]) :
              IF h = NoHandle
              THEN /\ AttemptFailed(c, ConnectError(ctxDone[c]))
                   /\ UNCHANGED <<cRelay, hcount, alive>>
              ELSE /\ Connected(h)
                   /\ rSawBroken' = [rSawBroken EXCEPT ![c] = cRelay[c]]
                   /\ rpc' = [rpc EXCEPT ![c] = "publish"]
                   /\ UNCHANGED <<cRelay, rAttempt, rTries, publishErr, outcome, retErr, cSubOpen>>
       ELSE /\ rpc' = [rpc EXCEPT ![c] = "publish"]
            /\ rSawBroken' = [rSawBroken EXCEPT ![c] = NoHandle]
            /\ UNCHANGED <<cRelay, rAttempt, rTries, publishErr, outcome, retErr, cSubOpen, hcount, alive>>
    /\ UNCHANGED <<relayEvents, breaks, notes, concurrent, stray, dvmVars, hbpc, stopVars, arg,
                   ctxDone, cSubH, rSeen, rPubTried, rPubOk, rOlder, result, resultEvt>>

\* A failed reconnect leaves publishErr as it was.
ReqAttemptNoErr(c) ==
    /\ rpc[c] = "attempt"
    /\ IF cRelay[c] \notin alive
       THEN \E h \in ConnectResults(ctxDone[c]) :
              IF h = NoHandle
              THEN /\ AttemptFailed(c, publishErr[c])
                   /\ UNCHANGED <<cRelay, hcount, alive>>
              ELSE /\ Connected(h)
                   /\ cRelay' = [cRelay EXCEPT ![c] = h]
                   /\ rSawBroken' = [rSawBroken EXCEPT ![c] = cRelay[c]]
                   /\ rpc' = [rpc EXCEPT ![c] = "publish"]
                   /\ UNCHANGED <<rAttempt, rTries, publishErr, outcome, retErr, cSubOpen>>
       ELSE /\ rpc' = [rpc EXCEPT ![c] = "publish"]
            /\ rSawBroken' = [rSawBroken EXCEPT ![c] = NoHandle]
            /\ UNCHANGED <<cRelay, rAttempt, rTries, publishErr, outcome, retErr, cSubOpen, hcount, alive>>
    /\ UNCHANGED <<relayEvents, breaks, notes, concurrent, stray, dvmVars, hbpc, stopVars, arg,
                   ctxDone, cSubH, rSeen, rPubTried, rPubOk, rOlder, result, resultEvt>>

\* Top of the retry loop: the ConnectionError check and the reconnect.
ReqAttempt(c) ==
    /\ rpc[c] = "attempt"
    /\ IF cRelay[c] \notin alive
       THEN \E h \in ConnectResults(ctxDone[c]) :
              IF h = NoHandle
              THEN /\ AttemptFailed(c, ConnectError(ctxDone[c]))
                   /\ UNCHANGED <<cRelay, hcount, alive>>
              ELSE /\ Connected(h)
                   /\ cRelay' = [cRelay EXCEPT ![c] = h]
                   /\ rSawBroken' = [rSawBroken EXCEPT ![c] = cRelay[c]]
                   /\ rpc' = [rpc EXCEPT ![c] = "publish"]
                   /\ UNCHANGED <<rAttempt, rTries, publishErr, outcome, retErr, cSubOpen>>
       ELSE /\ rpc' = [rpc EXCEPT ![c] = "publish"]
            /\ rSawBroken' = [rSawBroken EXCEPT ![c] = NoHandle]
            /\ UNCHANGED <<cRelay, rAttempt, rTries, publishErr, outcome, retErr, cSubOpen, hcount, alive>>
    /\ UNCHANGED <<relayEvents, breaks, notes, concurrent, stray, dvmVars, hbpc, stopVars, arg, ctxDone,
                   cSubH, rSeen, rPubTried, rPubOk, rOlder, result, resultEvt>>

\* c.relay.Publish(ctx, evt)
ReqPublish(c) ==
    /\ rpc[c] = "publish"
    /\ rPubTried' = [rPubTried EXCEPT ![c] = TRUE]
    /\ \/ /\ cRelay[c] \in alive
          /\ ~ctxDone[c]
          /\ relayEvents' = relayEvents \cup {RequestEvent(c, arg[c])}
          /\ concurrent' = (concurrent \/ OtherOutstanding)
          /\ UNCHANGED stray
          /\ rPubOk' = [rPubOk EXCEPT ![c] = TRUE]
          /\ rOlder' = [rOlder EXCEPT ![c] = {e.id : e \in Published(DvmPk)}]
          /\ AfterLoop(c, "nil")
       \/ /\ \E err \in CallErrors(ctxDone[c]) : AttemptFailed(c, err)
          /\ UNCHANGED <<relayEvents, concurrent, stray, rPubOk, rOlder>>
    /\ UNCHANGED <<alive, hcount, breaks, notes, dvmVars, hbpc, stopVars, arg, ctxDone,
                   cRelay, cSubH, rSeen, result, resultEvt>>

\* case e := <-sub.Events
ReqRecv(c, e) ==
    /\ rpc[c] = "wait"
    /\ e \in Deliverable(cSubH[c], cSubOpen[c], ClientFilter(DvmPk), rSeen[c])
    /\ rSeen' = [rSeen EXCEPT ![c] = @ \cup {e.id}]
    /\ IF Accepts(e, ReqId(c), DvmPk)
       THEN /\ Return(c, "result", "nil")
            /\ result' = [result EXCEPT ![c] = Unmarshal(e.content).tweet]
            /\ resultEvt' = [resultEvt EXCEPT ![c] = e]
       ELSE UNCHANGED <<rpc, outcome, retErr, cSubOpen, result, resultEvt>>
    /\ UNCHANGED <<envVars, dvmVars, hbpc, stopVars, arg, ctxDone, cRelay, cSubH,
                   rAttempt, rTries, rSawBroken, publishErr, rPubTried, rPubOk, rOlder>>

\* case e := <-sub.Events, for an event that the subscription's filter does
\* not pass (a connection that hands over more than was asked for), any
\* number of times and in any order: the handler is the same.
ReqRecvStray(c, e) ==
    /\ rpc[c] = "wait"
    /\ cSubOpen[c]
    /\ cSubH[c] \in alive
    /\ e \in relayEvents
    /\ ~Matches(ClientFilter(DvmPk), e)
    /\ stray < MaxStray
    /\ stray' = stray + 1
    /\ rSeen' = [rSeen EXCEPT ![c] = @ \cup {e.id}]
    /\ IF Accepts(e, ReqId(c), DvmPk)
       THEN /\ Return(c, "result", "nil")
            /\ result' = [result EXCEPT ![c] = Unmarshal(e.content).tweet]
            /\ resultEvt' = [resultEvt EXCEPT ![c] = e]
       ELSE UNCHANGED <<rpc, outcome, retErr, cSubOpen, result, resultEvt>>
    /\ UNCHANGED <<relayEvents, alive, hcount, breaks, notes, concurrent, dvmVars, hbpc,
                   stopVars, arg, ctxDone, cRelay, cSubH, rAttempt, rTries, rSawBroken,
                   publishErr, rPubTried, rPubOk, rOlder>>

\* The wait gives up with the context's error while the context is not done.
ReqCtxDoneEarly(c) ==
    /\ rpc[c] = "wait"
    /\ Return(c, "ctxerr", "ctx")
    /\ UNCHANGED <<envVars, dvmVars, hbpc, stopVars, arg, ctxDone, cRelay, cSubH, rSeen,
                   rAttempt, rTries, rSawBroken, publishErr, rPubTried, rPubOk, rOlder, result,
                   resultEvt>>

\* case <-ctx.Done(): return nil, ctx.Err()
ReqCtxDone(c) ==
    /\ rpc[c] = "wait"
    /\ ctxDone[c]
    /\ Return(c, "ctxerr", "ctx")
    /\ UNCHANGED <<envVars, dvmVars, hbpc, stopVars, arg, ctxDone, cRelay, cSubH, rSeen,
                   rAttempt, rTries, rSawBroken, publishErr, rPubTried, rPubOk, rOlder, result,
                   resultEvt>>

\* ------------------------------------------------------ specification
Next ==
    \/ \E h \in Handles : Break(h)
    \/ \E n \in NoteContents : OtherNote(n)
    \/ \E c \in Clients : ForeignReply(c)
    \/ \E a \in OtherArgs : OtherRequest(a)
    \/ \E c \in Clients : Deadline(c)
    \/ StopCall
    \/ StopClose
    \/ RunStart
    \/ RunSubscribe
    \/ \E e \in relayEvents : RunRecv(e)
    \/ RunFetch
    \/ RunAttempt
    \/ RunPublish
    \/ RunDone
    \/ HeartbeatTick
    \/ HeartbeatReconnect
    \/ HeartbeatStop
    \/ \E c \in Clients : ReqStart(c)
    \/ \E c \in Clients : ReqAttempt(c)
    \/ \E c \in Clients : ReqPublish(c)
    \/ \E c \in Clients : \E e \in relayEvents : ReqRecv(c, e)
    \/ \E c \in Clients : ReqCtxDone(c)

Spec == Init /\ [][Next]_vars

\* The responder's side: the callers of Stop, Run and the heartbeat, with the
\* requests of both requesters arriving.  Left out are the requester's wait,
\* its deadline and the notes: they change nothing the responder reads (its
\* filter takes kind 42069 only, and a publish of the requester can fail with
\* or without a deadline).
NextDvm ==
    \/ \E h \in Handles : Break(h)
    \/ \E a \in OtherArgs : OtherRequest(a)
    \/ StopCall
    \/ StopClose
    \/ RunStart
    \/ RunSubscribe
    \/ \E e \in relayEvents : RunRecv(e)
    \/ RunFetch
    \/ RunAttempt
    \/ RunPublish
    \/ RunDone
    \/ HeartbeatTick
    \/ HeartbeatReconnect
    \/ HeartbeatStop
    \/ \E c \in Clients : ReqStart(c)
    \/ \E c \in Clients : ReqAttempt(c)
    \/ \E c \in Clients : ReqPublish(c)

SpecDvm == Init /\ [][NextDvm]_vars

\* Run's goroutine goes on: the fetch, connect and publish calls return and
\* the sleeps end; a select with several ready cases picks one at random, so
\* the shutdown case, ready again and again, is taken in the end.  Nothing is
\* assumed of the callers, the relay's deliveries and the environment.
FairDvm ==
    /\ SpecDvm
    /\ WF_vars(RunFetch)
    /\ WF_vars(RunAttempt)
    /\ WF_vars(RunPublish)
    /\ SF_vars(RunDone)

\* The heartbeat's goroutine goes on as well: its reconnect call returns, and
\* its select, with ctx.Done() or d.done ready at every turn, takes one of
\* them in the end.
FairHeartbeat ==
    /\ FairDvm
    /\ WF_vars(HeartbeatReconnect)
    /\ SF_vars(HeartbeatStop)

\* The exchange of requests and responses without the shutdown: nobody calls
\* Stop.  A responder that was stopped answers nothing more, which a running
\* one may do as well, so the requester meets the same events.
NextExchange ==
    \/ \E h \in Handles : Break(h)
    \/ \E n \in NoteContents : OtherNote(n)
    \/ \E c \in Clients : ForeignReply(c)
    \/ \E a \in OtherArgs : OtherRequest(a)
    \/ \E c \in Clients : Deadline(c)
    \/ RunStart
    \/ RunSubscribe
    \/ \E e \in relayEvents : RunRecv(e)
    \/ RunFetch
    \/ RunAttempt
    \/ RunPublish
    \/ HeartbeatTick
    \/ HeartbeatReconnect
    \/ \E c \in Clients : ReqStart(c)
    \/ \E c \in Clients : ReqAttempt(c)
    \/ \E c \in Clients : ReqPublish(c)
    \/ \E c \in Clients : \E e \in relayEvents : ReqRecv(c, e)
    \/ \E c \in Clients : ReqCtxDone(c)

SpecExchange == Init /\ [][NextExchange]_vars

\* The publish steps of both sides: the exchange up to the requester's wait.
NextRetry ==
    \/ \E h \in Handles : Break(h)
    \/ \E a \in OtherArgs : OtherRequest(a)
    \/ \E c \in Clients : Deadline(c)
    \/ RunStart
    \/ RunSubscribe
    \/ \E e \in relayEvents : RunRecv(e)
    \/ RunFetch
    \/ RunAttempt
    \/ RunPublish
    \/ HeartbeatTick
    \/ HeartbeatReconnect
    \/ \E c \in Clients : ReqStart(c)
    \/ \E c \in Clients : ReqAttempt(c)
    \/ \E c \in Clients : ReqPublish(c)

SpecRetry == Init /\ [][NextRetry]_vars

\* The goroutines of Run and of RequestTweet go on: RelayConnect and Publish
\* return (the connector gives up on its own when the context has no
\* deadline) and the sleeps end.
FairRetry ==
    /\ SpecRetry
    /\ WF_vars(RunAttempt)
    /\ WF_vars(RunPublish)
    /\ \A c \in Clients : WF_vars(ReqAttempt(c)) /\ WF_vars(ReqPublish(c))

\* The requester with no responder online: Run is never started.
NextReq ==
    \/ \E h \in Handles : Break(h)
    \/ \E n \in NoteContents : OtherNote(n)
    \/ \E a \in OtherArgs : OtherRequest(a)
    \/ \E c \in Clients : Deadline(c)
    \/ \E c \in Clients : ReqStart(c)
    \/ \E c \in Clients : ReqAttempt(c)
    \/ \E c \in Clients : ReqPublish(c)
    \/ \E c \in Clients : \E e \in relayEvents : ReqRecv(c, e)
    \/ \E c \in Clients : ReqCtxDone(c)

SpecReq == Init /\ [][NextReq]_vars

\* The requester alone on a connection that also hands over events outside
\* the filter of the subscription.
NextStray ==
    \/ NextReq
    \/ \E c \in Clients : DvmRepost(c)
    \/ \E c \in Clients : \E e \in relayEvents : ReqRecvStray(c, e)

SpecStray == Init /\ [][NextStray]_vars

\* RequestTweet's goroutine goes on: connect and publish return, and the
\* select takes the ctx.Done() case in the end once it is ready.
FairReq ==
    /\ SpecReq
    /\ \A c \in Clients :
          /\ WF_vars(ReqAttempt(c))
          /\ WF_vars(ReqPublish(c))
          /\ SF_vars(ReqCtxDone(c))

\* ------------------------------------------------------------- claims
Responses == {e \in relayEvents : e.kind = KindNote /\ e.pubkey = DvmPk}

\* The payload decodes to a tweet with a text.
WellFormed(content) ==
    /\ Len(content) = 3
    /\ content[1] = "json"
    /\ content[3] # ""

\* C1: of two requests outstanding at the same time at one responder, the
\* requester of one never returns a result taken from a response event whose
\* "e" tag names the other request.
C1_CorrelationSoundness ==
    \A c \in Clients :
        (concurrent /\ outcome[c] = "result")
            => ~HasETag(resultEvt[c], ReqId(Other))

\* C2: with the responder answering, no connection failure and no other note
\* of the responder identity, a result RequestTweet returns for argument a is
\* the fetch result for a.
C2_RoundTrip ==
    \A c \in Clients :
        (outcome[c] = "result" /\ breaks = 0 /\ notes = 0)
            => result[c] = GetTweet(arg[c]).tweet

\* C3: a kind-1 event of the responder identity that carries no "e" tag equal
\* to the request id and decodes to a tweet with a text, once taken from the
\* subscription, has ended the wait: it is the event the call returned, with
\* its decoded payload.
C3_FallbackLeniency ==
    \A c \in Clients : \A e \in relayEvents :
        (/\ e.id \in rSeen[c]
         /\ e.kind = KindNote
         /\ e.pubkey = DvmPk
         /\ ~HasETag(e, ReqId(c))
         /\ WellFormed(e.content))
            => /\ rpc[c] = "returned"
               /\ outcome[c] = "result"
               /\ resultEvt[c] = e
               /\ result[c] = Tweet(e.content[2], e.content[3])

C3_Witness ==
    \E c \in Clients :
        /\ outcome[c] = "result"
        /\ resultEvt[c].tags = <<>>
        /\ resultEvt[c].pubkey = DvmPk

\* C4: however many callers call Stop, and whatever Run is doing, close(d.done)
\* runs at most once and never on a closed channel; once a call has returned
\* the channel is closed.
C4_IdempotentShutdown ==
    /\ closeCount <= 1
    /\ ~panicked
    /\ (stopIdle + stopIn < MaxStops => doneClosed /\ closeCount = 1)

C4_Witness ==
    /\ stopIdle = 0
    /\ stopIn = 0
    /\ closeCount = 1
    /\ dpc = "fetch"


\* C5: once the done channel is closed while Run is in its loop (at the
\* select, in the fetch or in the publish retry), Run returns nil in the end,
\* its context cancelled and its subscription released.
C5_ShutdownLiveness ==
    (doneClosed /\ dpc \in {"select", "fetch", "attempt", "publish"})
        ~> (dpc = "returned" /\ dRet = "nil" /\ dCtxCancelled /\ ~dSubOpen)

\* Stop came during the publish retry of one request while another request
\* is still to be delivered.
C5_Witness ==
    /\ doneClosed
    /\ dpc = "publish"
    /\ dAttempt > 0
    /\ Deliverable(dSubH, dSubOpen, DvmFilter, dSeen) # {}

\* No responder is online: Run has not been started and the relay holds no
\* event of the responder identity.
NoResponder == dpc = "init" /\ Responses = {}

\* C6: with no responder online, a call whose request was published returns
\* only once its context is done, then with the context's error and no
\* result; and once the context is done the waiting call returns.
C6_TimeoutFires ==
    /\ [](\A c \in Clients :
            (rpc[c] = "returned" /\ rPubOk[c] /\ NoResponder)
                => (ctxDone[c] /\ outcome[c] = "ctxerr" /\ result[c] = ZeroTweet))
    /\ \A c \in Clients :
            (rpc[c] = "wait" /\ ctxDone[c] /\ NoResponder)
                ~> ((rpc[c] = "returned" /\ outcome[c] = "ctxerr") \/ ~NoResponder)

C6_Witness ==
    \E c \in Clients :
        /\ rpc[c] = "returned"
        /\ rPubOk[c]
        /\ NoResponder
        /\ outcome[c] = "ctxerr"


\* C7: a request whose fetch returned an error gets no response event; and a
\* requester of such a request for which the relay holds no other event of
\* the responder either returns nothing but the context's error.
C7_DroppedJob ==
    /\ \A r \in dFetchFailed : \A e \in Responses : ~HasETag(e, r)
    /\ \A c \in Clients :
          (rpc[c] = "returned" /\ ReqId(c) \in dFetchFailed /\ Responses = {})
              => (outcome[c] = "ctxerr" /\ ctxDone[c])

C7_Witness ==
    \E c \in Clients :
        /\ rpc[c] = "returned"
        /\ ReqId(c) \in dFetchFailed
        /\ outcome[c] = "ctxerr"
        /\ dpc = "select"

\* C8: whenever a publish of the request has been attempted, is about to be,
\* or the request or a response to it is at the relay, the response
\* subscription was opened before.
C8_SubscribeBeforePublish ==
    \A c \in Clients :
        (\/ rpc[c] = "publish"
         \/ rPubTried[c]
         \/ RequestEvent(c, arg[c]) \in relayEvents
         \/ \E e \in Responses : HasETag(e, ReqId(c)))
            => cSubH[c] # NoHandle

C8_Witness ==
    \E c \in Clients :
        /\ \E e \in Responses : HasETag(e, ReqId(c))
        /\ rpc[c] = "wait"
        /\ cSubOpen[c]

\* C9: an attempt that found the handle broken reaches its publish only with
\* a handle connected after it (responder and requester), and a publish that
\* succeeded ends the publish step in success: the requester goes on to the
\* wait and never returns the publish error, the responder leaves the loop
\* with the response at the relay.
C9_ReconnectThenPublish ==
    /\ \A c \in Clients :
          /\ (rpc[c] = "publish" /\ rSawBroken[c] # NoHandle)
                => (cRelay[c] # rSawBroken[c] /\ cRelay[c] > rSawBroken[c])
          /\ rPubOk[c] => (rpc[c] \in {"wait", "returned"} /\ outcome[c] # "puberr")
    /\ (dpc = "publish" /\ dSawBroken # NoHandle)
          => (dRelay # dSawBroken /\ dRelay > dSawBroken)
    /\ \A r \in dPubOk :
          /\ \E e \in Responses : HasETag(e, r)
          /\ dCur.id # r

\* The requester found its handle broken, reconnected and published.
C9_Witness ==
    \E c \in Clients :
        /\ cRelay[c] # InitHandle(c)
        /\ rPubOk[c]
        /\ rpc[c] = "wait"
        /\ rAttempt[c] = 0

\* C10: the wait is entered only after a publish succeeded, and a call that
\* opened its subscription and returned without a successful publish returned
\* the publish error.
C10_PublishExhaustion ==
    \A c \in Clients :
        /\ (rpc[c] = "wait" \/ outcome[c] \in {"result", "ctxerr"}) => rPubOk[c]
        /\ (rpc[c] = "returned" /\ cSubH[c] # NoHandle /\ ~rPubOk[c])
              => outcome[c] = "puberr"

C10_Witness ==
    \E c \in Clients :
        /\ rpc[c] = "returned"
        /\ outcome[c] = "puberr"
        /\ rPubTried[c]
        /\ cRelay[c] # InitHandle(c)

C12_AnsweredAtMostOnce ==
    \A r \in RequestIds :
        /\ dPublished[r] <= 1
        /\ (dCur.id = r /\ dpc \in {"attempt", "publish"}) => dPublished[r] = 0
        /\ dPublished[r] = 1 <=> r \in dPubOk
        /\ dPublished[r] = 1 =>
              /\ r \in dSeen
              /\ Cardinality({e \in Responses : HasETag(e, r)}) = 1

\* The other request was answered once, and the loop is at the third publish
\* attempt for the next request.
C12_Witness ==
    /\ dPublished[ReqId(Other)] = 1
    /\ dSawBroken = NoHandle
    /\ \E c \in Clients : dCur.id = ReqId(c) /\ dAttempt = 2 /\ dpc = "publish"

C14_SynchronizedHandle ==
    /\ [](~(dpc = "publish" /\ hbpc = "reconnect"))
    /\ [][/\ dpc = "publish" => dRelay' = dRelay
          /\ (hbpc = "reconnect" /\ hbpc' = hbpc) => dRelay' = dRelay]_vars

\* C15: once Run has replaced d.relay by a reconnect and is in its loop with
\* the new connection working, a request published to the relay can be
\* delivered to the loop: the request subscription is open on a working
\* connection.
C15_ResponderSurvivesReconnect ==
    [][\A q \in relayEvents' \ relayEvents :
          (/\ q.kind = KindRequest
           /\ dpc \in {"select", "fetch", "attempt", "publish"}
           /\ dRelay # dSubH
           /\ dRelay \in alive)
              => (dSubOpen /\ dSubH \in alive /\ Matches(DvmFilter, q))]_vars

\* C16: when a requester that reconnected in its publish step and published
\* its request on the new connection is in its wait, that connection
\* working, a response tagged with its request id that the responder
\* publishes can be delivered to the wait: the response subscription is open
\* on a working connection.
C16_RequesterSurvivesReconnect ==
    [][\A c \in Clients : \A e \in relayEvents' \ relayEvents :
          (/\ e.pubkey = DvmPk
           /\ HasETag(e, ReqId(c))
           /\ rpc[c] = "wait"
           /\ cRelay[c] # cSubH[c]
           /\ cRelay[c] \in alive)
              => (cSubOpen[c] /\ cSubH[c] \in alive /\ Matches(ClientFilter(DvmPk), e))]_vars

\* C17: a result RequestTweet returns is never decoded from a response of the
\* responder to a request (an event of the responder that carries an "e" tag)
\* which the relay already held when the call's own request was published.
C17_NoStaleAnswer ==
    \A c \in Clients :
        (outcome[c] = "result" /\ \E r \in RequestIds : HasETag(resultEvt[c], r))
            => resultEvt[c].id \notin rOlder[c]

\* C18: an event that passes the correlation test but does not decode, or
\* decodes to an empty text, does not end the wait: the call returns a result
\* only from an event that decodes to a tweet with a text, every event it
\* took before that one had failed the test or the decoding, and after a
\* failed decoding the call is still waiting or has returned a result or the
\* context's error.
C18_DecodeFailureKeepsWaiting ==
    \A c \in Clients :
        /\ outcome[c] = "result" =>
              /\ resultEvt[c].id \in rSeen[c]
              /\ WellFormed(resultEvt[c].content)
              /\ result[c] = Tweet(resultEvt[c].content[2], resultEvt[c].content[3])
        /\ \A e \in relayEvents :
              (e.id \in rSeen[c] /\ e # resultEvt[c]) =>
                  /\ ~(IsOurResponse(e, ReqId(c), DvmPk) /\ WellFormed(e.content))
                  /\ rpc[c] = "wait" \/ outcome[c] \in {"result", "ctxerr"}

\* The call took an event of the responder that does not decode to a tweet
\* with a text, and returned the result of a later one.
C18_Witness ==
    \E c \in Clients : \E e \in relayEvents :
        /\ e.id \in rSeen[c]
        /\ IsOurResponse(e, ReqId(c), DvmPk)
        /\ ~WellFormed(e.content)
        /\ outcome[c] = "result"

\* C19: from the opening of its subscription to its return the call holds the
\* subscription open, and in every state after a return (result, publish
\* error, context's error on deadline or cancel) it is unsubscribed.
C19_SubscriptionReleased ==
    \A c \in Clients :
        /\ rpc[c] \in {"attempt", "publish", "wait"} => (cSubOpen[c] /\ cSubH[c] # NoHandle)
        /\ rpc[c] = "returned" => ~cSubOpen[c]
        /\ (rpc[c] = "returned" /\ cSubH[c] # NoHandle)
              => outcome[c] \in {"result", "puberr", "ctxerr"}

\* The call opened its subscription and returned the publish error.
C19_Witness ==
    \E c \in Clients :
        /\ rpc[c] = "returned"
        /\ cSubH[c] # NoHandle
        /\ outcome[c] = "puberr"
        /\ ~cSubOpen[c]

\* The requests Run took and left without a response: the fetch, the
\* serialization or the signing failed, or the publish attempts were used up.
Dropped == {r \in dSeen : dCur.id # r /\ r \notin dPubOk}

\* C20: with nobody calling Stop, after a request was dropped Run has not
\* returned: it is in its loop, the subscription still held and the context
\* not cancelled; at the select nothing of the dropped request is left, so
\* the next request is processed as the first one was; and every request
\* whose publish succeeded has its response at the relay.
C20_PerJobFailuresNotFatal ==
    /\ Dropped # {} =>
          /\ dpc \in {"select", "fetch", "attempt", "publish"}
          /\ dRet = "none"
          /\ dSubOpen
          /\ ~dCtxCancelled
          /\ dpc = "select" =>
                (dCur = NoEvent /\ dResp = NoEvent /\ dAttempt = 0 /\ dSawBroken = NoHandle)
    /\ \A r \in dSeen \ Dropped :
          r \in dPubOk => \E e \in Published(DvmPk) : HasETag(e, r)

\* The request whose fetch failed was dropped and the next request is at
\* its publish on a working connection.
C20_Witness ==
    /\ Dropped \cap dFetchFailed # {}
    /\ dCur.id = ReqId(Other)
    /\ dpc = "publish"
    /\ dRelay \in alive
    /\ dSubH \in alive

\* C21: in a publish step, of the responder and of the requester, every
\* iteration of the retry loop begins, and every Publish is called, with fewer
\* than 3 Publish calls and failed reconnects made before it in the step, so
\* that their number never exceeds 3; the Publish that returns nil ends the
\* step; and the step ends.
C21_BoundedRetry ==
    /\ [](dTries < maxRetries /\ \A c \in Clients : rTries[c] < maxRetries)
    /\ [][/\ (RunAttempt \/ RunPublish) => dTries + 1 <= maxRetries
          /\ dTries' \in {0, dTries, dTries + 1}
          /\ dPublished' # dPublished => (dpc' = "select" /\ dTries' = 0)
          /\ \A c \in Clients :
                /\ (ReqAttempt(c) \/ ReqPublish(c)) => rTries[c] + 1 <= maxRetries
                /\ rTries'[c] \in {0, rTries[c], rTries[c] + 1}
                /\ (rPubOk'[c] /\ ~rPubOk[c]) => (rpc'[c] = "wait" /\ rTries'[c] = 0)]_vars
    /\ (dpc \in {"attempt", "publish"}) ~> (dpc = "select")
    /\ \A c \in Clients :
          (rpc[c] \in {"attempt", "publish"}) ~> (rpc[c] \in {"wait", "returned"})

\* Both sides are at the third call of their publish step.
C21_Witness ==
    /\ dpc = "publish"
    /\ dTries = 2
    /\ \E c \in Clients : rpc[c] = "publish" /\ rTries[c] = 2

\* C22: the loop body begins on a request only when it has ended on every
\* request before, so that the work on two requests never overlaps: in the
\* order of begins and ends each begin is followed at once by the end of the
\* same request, the request in work is the one begun last, and a response
\* is published only for the request in work, in the step that ends it; the
\* responses are thus published in the order of delivery.
C22_SequentialProcessing ==
    /\ [](/\ \A i \in 1..Len(dLog) :
                (IF i % 2 = 1
                 THEN dLog[i][1] = "recv"
                 ELSE dLog[i] = <<"end", dLog[i - 1][2]>>)
          /\ (IF Len(dLog) % 2 = 1
              THEN (dCur.id = dLog[Len(dLog)][2] /\ dpc \in {"fetch", "attempt", "publish"})
              ELSE (dCur = NoEvent /\ dpc \notin {"fetch", "attempt", "publish"}))
          /\ \A r \in dPubOk : \E j \in 1..Len(dLog) : dLog[j] = <<"end", r>>)
    /\ [][\A r \in RequestIds :
             dPublished'[r] # dPublished[r] =>
                 (dCur.id = r /\ dLog' = Append(dLog, <<"end", r>>))]_vars

\* Two requests were delivered and answered, one after the other.
C22_Witness ==
    /\ Len(dLog) = 4
    /\ dPubOk = RequestIds

C24_RunBlocksUntilStopped ==
    /\ []((dSubH # NoHandle /\ dpc = "returned")
            => (doneClosed /\ closeCount > 0 /\ dRet = "nil"))
    /\ []((dSubH # NoHandle /\ ~doneClosed)
            => (dpc \in {"select", "fetch", "attempt", "publish"} /\ dRet = "none"))
    /\ [][(dSubH # NoHandle /\ dpc # "returned" /\ dpc' = "returned")
            => (dpc = "select" /\ doneClosed /\ dRet' = "nil")]_vars

\* Run returned nil after Stop, having dropped a request whose fetch failed
\* and one whose publishes all failed on a broken connection.
C24_Witness ==
    /\ dpc = "returned"
    /\ dRet = "nil"
    /\ dSubH # NoHandle
    /\ breaks > 0
    /\ Dropped \cap dFetchFailed # {}
    /\ Dropped \ dFetchFailed # {}

\* C25: whenever Run has returned, through the shutdown signal or with the
\* subscription error, the heartbeat it started terminates in the end, with
\* no call of Stop needed after the return.
C25_HeartbeatEndsWithRun == (dpc = "returned") ~> (hbpc = "stopped")

\* C26: an event whose kind is not 1 taken from the subscription, a second
\* time or late as well, leaves the call where it is: it stays in the wait,
\* returns nothing, publishes nothing and reconnects nothing, and keeps its
\* subscription and its request.
C26_UnrelatedEventsIgnored ==
    [][\A c \in Clients :
          (\E e \in relayEvents : e.kind # KindNote /\ ReqRecvStray(c, e))
             => /\ rpc[c] = "wait"
                /\ rpc'[c] = "wait"
                /\ UNCHANGED <<relayEvents, alive, hcount, arg, cRelay, cSubH, cSubOpen,
                               rAttempt, rTries, publishErr, rPubTried, rPubOk, outcome,
                               retErr, result, resultEvt>>]_vars

\* The repost that carries the request's tag was taken twice, after the
\* request and with nothing else of another kind, and the call waits on.
C26_Witness ==
    \E c \in Clients :
        /\ stray = 2
        /\ {e \in relayEvents : e.kind # KindNote /\ e.id \in rSeen[c]} = {Repost(c)}
        /\ rpc[c] = "wait"
        /\ cSubOpen[c]

\* C27: Run leaves its Subscribe call either with the subscription open on
\* the connection it had, or returned with the error; no connection is made
\* and no second Subscribe.  Once it has returned the error it stays
\* returned with no subscription, and it has taken no event, begun no
\* request and published nothing.
C27_SubscribeFailureFatal ==
    /\ [][(dpc = "subscribing" /\ dpc' # dpc) =>
             /\ dRelay' = dRelay
             /\ hcount' = hcount
             /\ \/ (dpc' = "select" /\ dSubH' = dRelay /\ dSubOpen' /\ dRet' = "none")
                \/ (dpc' = "returned" /\ dRet' = "err" /\ dSubH' = NoHandle)]_vars
    /\ [](dRet = "err" =>
             /\ dpc = "returned"
             /\ dSubH = NoHandle
             /\ ~dSubOpen
             /\ dSeen = {}
             /\ dLog = << >>
             /\ dCur = NoEvent
             /\ dPubOk = {}
             /\ \A r \in RequestIds : dPublished[r] = 0
             /\ Published(DvmPk) = {})
    /\ [](dpc \in {"select", "fetch", "attempt", "publish"} => dSubH # NoHandle)

\* Run returned the subscription error with a request waiting at the relay
\* and, the heartbeat having reconnected since, a working connection at hand.
C27_Witness ==
    /\ dpc = "returned"
    /\ dRet = "err"
    /\ \E e \in relayEvents : Matches(DvmFilter, e)
    /\ dRelay \in alive
    /\ dRelay # 1

====
